---------------------------- MODULE Spec2Model ----------------------------
(***************************************************************************)
(* Input preparation for the Mask R-CNN detector of gildas-ai               *)
(* (src/mask/mask.go) and the classifier tensor composers of the tensor     *)
(* package (second half of src/cmd/folder/folder.go).                       *)
(*                                                                         *)
(* Four specifications share the variables below; each one drives one      *)
(* component and leaves the variables of the others at Idle:               *)
(*   Spec         RCNN.Inception / Model.Inception with makeInputs         *)
(*   SpecMeta     composeImageMeta                                         *)
(*   SpecTensor   imageToTensor (mask), imageToTensorTF, imageToTensorCaffe*)
(*   SpecAnchors  getAnchors / generatePyramidAnchors / generateAnchors    *)
(*                                                                         *)
(* Numbers.  A float32 that the code obtains from integers by conversion,  *)
(* subtraction and division is an exact fraction <<n, d>> in lowest terms  *)
(* (d > 0; <<1, 0>> is +Inf, <<-1, 0>> is -Inf, <<0, 0>> is NaN).  The      *)
(* anchor coordinates, which go through math.Sqrt, are fixed-point         *)
(* integers in units of 1/FixedOne pixel.  float32 rounding is not         *)
(* modelled.                                                               *)
(***************************************************************************)
EXTENDS Integers, Sequences, FiniteSets, TLC

VARIABLES
    \* ---- composeImageMeta (SpecMeta)
    mPc,        \* "call" | "done"
    mArgs,      \* the arguments of the call
    mMeta,      \* the tensor returned
    \* ---- imageToTensor* (SpecTensor)
    tPc,        \* "alloc" | "outer" | "inner" | "done"
    tMode,      \* "mask" | "tf" | "caffe"
    tImg,       \* the image passed in
    tI, tJ,     \* the loop variables i and j
    tImage,     \* the local `image`: image[0] as a sequence of rows
    tReads,     \* history: how often img.At(x, y) was called, per (x, y)
    tWrites,    \* history: how often image[0][a][b] was assigned, per (a, b)
    tConverts,  \* history: number of pixels normalized
    tOut,       \* the tensor returned
    \* ---- anchors (SpecAnchors)
    aPc,        \* "pyramid" | "rows" | "cols" | "ratios" | "done" | "panic"
    aEntry,     \* "getAnchors" | "generatePyramidAnchors"
    aBounds,    \* imageBounds of getAnchors
    aCfg,       \* scales, ratios, featureShapes, featureStrides, anchorStride
    aLvl,       \* i of generatePyramidAnchors (1-based)
    aHW,        \* heights and widths of the running generateAnchors
    aJ, aI, aK, \* j, i, k of generateAnchors
    aBoxes,     \* boxes of the running generateAnchors
    aAnchors,   \* anchors[0] of generatePyramidAnchors
    aLens,      \* history: length of the slice each generateAnchors returned
    \* ---- Inception (Spec)
    pc,         \* "call" | "run" | "check" | "ret"
    recv,       \* "RCNN" | "Model": the receiver of Inception
    img,        \* the image passed in
    imageMode,  \* Model.imageMode
    inputs,     \* the tensors built for the session
    runs,       \* history: number of Session.Run calls
    result,     \* what Session.Run returned
    ret         \* what Inception returned

metaVars   == <<mPc, mArgs, mMeta>>
tensorVars == <<tPc, tMode, tImg, tI, tJ, tImage, tReads, tWrites, tConverts, tOut>>
anchorVars == <<aPc, aEntry, aBounds, aCfg, aLvl, aHW, aJ, aI, aK, aBoxes,
                aAnchors, aLens>>
runVars    == <<pc, recv, img, imageMode, inputs, runs, result, ret>>
vars       == <<metaVars, tensorVars, anchorVars, runVars>>

Idle == "idle"

MetaIdle   == /\ mPc = Idle /\ mArgs = Idle /\ mMeta = Idle
TensorIdle == /\ tPc = Idle /\ tMode = Idle /\ tImg = Idle /\ tI = 0 /\ tJ = 0
              /\ tImage = Idle /\ tReads = Idle /\ tWrites = Idle
              /\ tConverts = 0 /\ tOut = Idle
AnchorIdle == /\ aPc = Idle /\ aEntry = Idle /\ aBounds = Idle /\ aCfg = Idle
              /\ aLvl = 0 /\ aHW = Idle /\ aJ = 0 /\ aI = 0 /\ aK = 0
              /\ aBoxes = Idle /\ aAnchors = Idle /\ aLens = Idle
MetaOnly   == UNCHANGED <<tensorVars, anchorVars, runVars>>
TensorOnly == UNCHANGED <<metaVars, anchorVars, runVars>>
AnchorOnly == UNCHANGED <<metaVars, tensorVars, runVars>>
RunOnly    == UNCHANGED <<metaVars, tensorVars, anchorVars>>

RunIdle    == /\ pc = Idle /\ recv = Idle /\ img = Idle /\ imageMode = Idle
              /\ inputs = Idle /\ runs = 0 /\ result = Idle /\ ret = Idle

-----------------------------------------------------------------------------
(* Bounds of the model *)

MaxDim     == 3   \* image widths and heights 1..MaxDim (SpecTensor)
MaxClasses == 3   \* numClasses 0..MaxClasses (SpecMeta)
MaxSeed    == 1   \* pixel patterns 0..MaxSeed (SpecTensor)
MaxAnchorDim == 5 \* image bounds 1..MaxAnchorDim of getAnchors (SpecAnchors)
LargeDim   == 65  \* one more width and height of getAnchors, past the last stride
MaxOverrun == 3   \* boxes a loop that cannot end may still append past its grid
MaxRows    == 2   \* rows 0..MaxRows of a tensor the session returns (Spec)
MaxResults == 2   \* 0..MaxResults tensors returned by a session run (Spec)

-----------------------------------------------------------------------------
(* float32 as exact fractions *)

Abs(n) == IF n < 0 THEN -n ELSE n

RECURSIVE GCD(_, _)
GCD(a, b) == IF b = 0 THEN a ELSE GCD(b, a % b)

Sign(n) == IF n > 0 THEN 1 ELSE IF n < 0 THEN -1 ELSE 0

\* n/d in lowest terms, the sign in the numerator; x/0 is an infinity or NaN
Frac(n, d) ==
    IF d = 0 THEN <<Sign(n), 0>>
    ELSE LET g == GCD(Abs(n), Abs(d))
         IN  IF d < 0 THEN <<(-n) \div g, (-d) \div g>> ELSE <<n \div g, d \div g>>

\* float32(n) of an integer n
F32(n) == <<n, 1>>

FSub(a, b) == Frac(a[1] * b[2] - b[1] * a[2], a[2] * b[2])
FDiv(a, b) == Frac(a[1] * b[2], a[2] * b[1])

-----------------------------------------------------------------------------
(* image.Rectangle and image.Image *)

Rect(x0, y0, x1, y1) == [Min |-> [X |-> x0, Y |-> y0], Max |-> [X |-> x1, Y |-> y1]]
Dx(r) == r.Max.X - r.Min.X
Dy(r) == r.Max.Y - r.Min.Y

\* tf.NewTensor of a Go value: the tensor's shape and its data
Tensor(shape, data) == [shape |-> shape, data |-> data]

-----------------------------------------------------------------------------
(* composeImageMeta *)

\* make([]float32, n)
Zeros(n) == [x \in 1..n |-> F32(0)]

\* composeImageMeta with the original width before the height: C4 tells them apart
composeImageMetaWidthFirst(imageID, originalBounds, resizedBounds, window, scale, numClasses) ==
    LET m == <<F32(imageID),
               F32(Dx(originalBounds)), F32(Dy(originalBounds)), F32(3),
               F32(Dy(resizedBounds)), F32(Dx(resizedBounds)), F32(3),
               F32(window.Min.Y), F32(window.Min.X),
               F32(window.Max.Y), F32(window.Max.X), scale>> \o Zeros(numClasses)
    IN  Tensor(<<1, Len(m)>>, <<m>>)

composeImageMeta(imageID, originalBounds, resizedBounds, window, scale, numClasses) ==
    LET m1 == <<F32(imageID)>>
        m2 == m1 \o <<F32(Dy(originalBounds)), F32(Dx(originalBounds)), F32(3)>>
        m3 == m2 \o <<F32(Dy(resizedBounds)), F32(Dx(resizedBounds)), F32(3)>>
        m4 == m3 \o <<F32(window.Min.Y), F32(window.Min.X),
                      F32(window.Max.Y), F32(window.Max.X)>>
        m5 == m4 \o <<scale>>
        m6 == m5 \o Zeros(numClasses)
    IN  Tensor(<<1, Len(m6)>>, <<m6>>)

MetaIDs     == {0, 7}
MetaBounds  == {Rect(0, 0, 600, 400), Rect(0, 0, 800, 800), Rect(1, 2, 4, 7)}
MetaWindows == {Rect(0, 0, 800, 800), Rect(0, 100, 800, 700), Rect(1, 2, 4, 7)}
MetaScales  == {F32(2), Frac(4, 3), Frac(1, 2)}

MetaInit ==
    /\ mPc = "call"
    /\ mArgs \in [imageID : MetaIDs, originalBounds : MetaBounds,
                  resizedBounds : MetaBounds, window : MetaWindows,
                  scale : MetaScales, numClasses : 0..MaxClasses]
    /\ mMeta = Idle
    /\ TensorIdle /\ AnchorIdle /\ RunIdle

ComposeImageMeta ==
    /\ mPc = "call"
    /\ mMeta' = composeImageMeta(mArgs.imageID, mArgs.originalBounds,
                                 mArgs.resizedBounds, mArgs.window,
                                 mArgs.scale, mArgs.numClasses)
    /\ mPc' = "done"
    /\ MetaOnly
    /\ UNCHANGED mArgs

MetaNext == ComposeImageMeta

SpecMeta == MetaInit /\ [][MetaNext]_vars


\* C4: composeImageMeta returns a vector of length 12 + numClasses (tensor
\* shape (1, 12 + numClasses)) whose entries are, in order, image_id, orig_h,
\* orig_w, 3, resized_h, resized_w, 3, window_y1, window_x1, window_y2,
\* window_x2, scale and then numClasses zeros; the first twelve entries are
\* written without reference to numClasses.
C4_MetaLayout ==
    mPc = "done" =>
        LET a == mArgs
            v == mMeta.data[1]
            o == a.originalBounds
            r == a.resizedBounds
            w == a.window
        IN  /\ mMeta.shape = <<1, 12 + a.numClasses>>
            /\ Len(mMeta.data) = 1
            /\ Len(v) = 12 + a.numClasses
            /\ SubSeq(v, 1, 12) =
                 << <<a.imageID, 1>>,
                    <<o.Max.Y - o.Min.Y, 1>>, <<o.Max.X - o.Min.X, 1>>, <<3, 1>>,
                    <<r.Max.Y - r.Min.Y, 1>>, <<r.Max.X - r.Min.X, 1>>, <<3, 1>>,
                    <<w.Min.Y, 1>>, <<w.Min.X, 1>>, <<w.Max.Y, 1>>, <<w.Max.X, 1>>,
                    a.scale >>
            /\ \A c \in 13..Len(v) : v[c] = <<0, 1>>

\* C4 witness: a call with two classes, a non-square original image and a
\* window that is not the resized bounds has returned its 14 entries.
C4_Witness ==
    /\ mPc = "done"
    /\ mArgs.numClasses = 2
    /\ mArgs.imageID = 7
    /\ mArgs.originalBounds = Rect(0, 0, 600, 400)
    /\ mArgs.resizedBounds = Rect(0, 0, 800, 800)
    /\ mArgs.window = Rect(0, 100, 800, 700)
    /\ Len(mMeta.data[1]) = 14

-----------------------------------------------------------------------------
(* Pixels *)

\* The image handed in: its bounds and its pixel pattern.  Every channel of a
\* pixel is an 8-bit sample c, which RGBA() returns as the 16-bit c * 257.
Pixel(seed, x, y) ==
    LET c == (29 * seed + 16 * x + 64 * y + 5) % 256
    IN  <<c * 257, ((c + 100) % 256) * 257, ((c + 200) % 256) * 257, 65535>>

Image(rect, seed) == [Rect |-> rect, seed |-> seed]

\* img.At(x, y).RGBA(): outside the image's bounds the zero colour, as
\* image.RGBA and image.NRGBA give
At(image, x, y) ==
    IF /\ image.Rect.Min.X <= x /\ x < image.Rect.Max.X
       /\ image.Rect.Min.Y <= y /\ y < image.Rect.Max.Y
    THEN Pixel(image.seed, x, y)
    ELSE <<0, 0, 0, 0>>

\* value >> 8
Shr8(value) == value \div 256

convert(value) == FDiv(FSub(F32(Shr8(value)), Frac(255, 2)), Frac(255, 2))

convertTF(value) == FDiv(FSub(F32(Shr8(value)), Frac(255, 2)), Frac(255, 2))

convertCaffe(value) == F32(Shr8(value))

\* make([][3]float32, n), and the zero value of [n][n][3]float32
ZeroRow(n) == [x \in 1..n |-> <<F32(0), F32(0), F32(0)>>]
ZeroGrid(n) == [y \in 1..n |-> ZeroRow(n)]

\* tf.NewTensor of a [1][][][3]float32 or [1][n][n][3]float32 whose element 0
\* is `grid`
NewImageTensor(grid) ==
    Tensor(<<1, Len(grid), IF Len(grid) = 0 THEN 0 ELSE Len(grid[1]), 3>>, grid)

\* the shape of the tensor mask.imageToTensor returns; Spec carries this in
\* place of the 800 x 800 pixels, which SpecTensor's loop computes
imageToTensorShape(image) == <<1, Dy(image.Rect), Dx(image.Rect), 3>>

\* the coordinates the histories range over: the images' and then some
Coords == (0..MaxDim + 1) \X (0..MaxDim + 1)
NoCount == [c \in Coords |-> 0]
Bump(h, a, b) == [h EXCEPT ![<<a, b>>] = @ + 1]


-----------------------------------------------------------------------------
(* imageToTensor of package mask *)

\* maskPixel reading img.At(j, i): C7 tells them apart
maskPixelTransposed(image, i, j) ==
    LET c == At(image, j, i) IN <<convert(c[1]), convert(c[2]), convert(c[3])>>

\* r, g, b, _ := img.At(i, j).RGBA() and the three conversions
maskPixel(image, i, j) ==
    LET c == At(image, i, j) IN <<convert(c[1]), convert(c[2]), convert(c[3])>>

\* image[0][j][i] = ...
maskStore(grid, i, j, rgb) == [grid EXCEPT ![j + 1][i + 1] = rgb]

\* for j := 0; j < imageHeight; j++ { image[0] = append(image[0], make(.., imageWidth)) }
MaskAllocRow ==
    /\ tPc = "alloc" /\ tMode = "mask"
    /\ tJ < Dy(tImg.Rect)
    /\ tImage' = Append(tImage, ZeroRow(Dx(tImg.Rect)))
    /\ tJ' = tJ + 1
    /\ TensorOnly
    /\ UNCHANGED <<tPc, tMode, tImg, tI, tReads, tWrites, tConverts, tOut>>

MaskAllocEnd ==
    /\ tPc = "alloc" /\ tMode = "mask"
    /\ ~(tJ < Dy(tImg.Rect))
    /\ tPc' = "outer"
    /\ tI' = 0
    /\ TensorOnly
    /\ UNCHANGED <<tMode, tImg, tJ, tImage, tReads, tWrites, tConverts, tOut>>

\* for i := 0; i < imageWidth; i++ {
MaskOuter ==
    /\ tPc = "outer" /\ tMode = "mask"
    /\ tI < Dx(tImg.Rect)
    /\ tJ' = 0
    /\ tPc' = "inner"
    /\ TensorOnly
    /\ UNCHANGED <<tMode, tImg, tI, tImage, tReads, tWrites, tConverts, tOut>>

\* return tf.NewTensor(image)
MaskReturn ==
    /\ tPc = "outer" /\ tMode = "mask"
    /\ ~(tI < Dx(tImg.Rect))
    /\ tOut' = NewImageTensor(tImage)
    /\ tPc' = "done"
    /\ TensorOnly
    /\ UNCHANGED <<tMode, tImg, tI, tJ, tImage, tReads, tWrites, tConverts>>

\* for j := 0; j < imageHeight; j++ { ... the body ... }
MaskInner ==
    /\ tPc = "inner" /\ tMode = "mask"
    /\ tJ < Dy(tImg.Rect)
    /\ tImage' = maskStore(tImage, tI, tJ, maskPixel(tImg, tI, tJ))
    /\ tReads' = Bump(tReads, tI, tJ)
    /\ tWrites' = Bump(tWrites, tJ, tI)
    /\ tConverts' = tConverts + 1
    /\ tJ' = tJ + 1
    /\ TensorOnly
    /\ UNCHANGED <<tPc, tMode, tImg, tI, tOut>>

MaskInnerEnd ==
    /\ tPc = "inner" /\ tMode = "mask"
    /\ ~(tJ < Dy(tImg.Rect))
    /\ tI' = tI + 1
    /\ tPc' = "outer"
    /\ TensorOnly
    /\ UNCHANGED <<tMode, tImg, tJ, tImage, tReads, tWrites, tConverts, tOut>>

-----------------------------------------------------------------------------
(* imageToTensorTF and imageToTensorCaffe of package tensor *)

\* The side of the fixed-size arrays: [1][299][299][3]float32 and
\* [1][224][224][3]float32 in the source, scaled down here so that the loops
\* can be run to their end.
TFSize    == 3
CaffeSize == 2

tfPixel(image, i, j) ==
    LET c == At(image, i, j) IN <<convertTF(c[1]), convertTF(c[2]), convertTF(c[3])>>

\* image[0][i][j] = ...
tfStore(grid, i, j, rgb) == [grid EXCEPT ![i + 1][j + 1] = rgb]

caffePixel(image, i, j) ==
    LET c == At(image, i, j)
    IN  <<FSub(convertCaffe(c[3]), Frac(103939, 1000)),
          FSub(convertCaffe(c[2]), Frac(116779, 1000)),
          FSub(convertCaffe(c[1]), Frac(12368, 100))>>

caffeStore(grid, i, j, rgb) == [grid EXCEPT ![i + 1][j + 1] = rgb]

TFOuter ==
    /\ tPc = "outer" /\ tMode = "tf"
    /\ tI < TFSize
    /\ tJ' = 0
    /\ tPc' = "inner"
    /\ TensorOnly
    /\ UNCHANGED <<tMode, tImg, tI, tImage, tReads, tWrites, tConverts, tOut>>

TFReturn ==
    /\ tPc = "outer" /\ tMode = "tf"
    /\ ~(tI < TFSize)
    /\ tOut' = NewImageTensor(tImage)
    /\ tPc' = "done"
    /\ TensorOnly
    /\ UNCHANGED <<tMode, tImg, tI, tJ, tImage, tReads, tWrites, tConverts>>

TFInner ==
    /\ tPc = "inner" /\ tMode = "tf"
    /\ tJ < TFSize
    /\ tImage' = tfStore(tImage, tI, tJ, tfPixel(tImg, tI, tJ))
    /\ tReads' = Bump(tReads, tI, tJ)
    /\ tWrites' = Bump(tWrites, tI, tJ)
    /\ tConverts' = tConverts + 1
    /\ tJ' = tJ + 1
    /\ TensorOnly
    /\ UNCHANGED <<tPc, tMode, tImg, tI, tOut>>

TFInnerEnd ==
    /\ tPc = "inner" /\ tMode = "tf"
    /\ ~(tJ < TFSize)
    /\ tI' = tI + 1
    /\ tPc' = "outer"
    /\ TensorOnly
    /\ UNCHANGED <<tMode, tImg, tJ, tImage, tReads, tWrites, tConverts, tOut>>

CaffeOuter ==
    /\ tPc = "outer" /\ tMode = "caffe"
    /\ tI < CaffeSize
    /\ tJ' = 0
    /\ tPc' = "inner"
    /\ TensorOnly
    /\ UNCHANGED <<tMode, tImg, tI, tImage, tReads, tWrites, tConverts, tOut>>

CaffeReturn ==
    /\ tPc = "outer" /\ tMode = "caffe"
    /\ ~(tI < CaffeSize)
    /\ tOut' = NewImageTensor(tImage)
    /\ tPc' = "done"
    /\ TensorOnly
    /\ UNCHANGED <<tMode, tImg, tI, tJ, tImage, tReads, tWrites, tConverts>>

CaffeInner ==
    /\ tPc = "inner" /\ tMode = "caffe"
    /\ tJ < CaffeSize
    /\ tImage' = caffeStore(tImage, tI, tJ, caffePixel(tImg, tI, tJ))
    /\ tReads' = Bump(tReads, tI, tJ)
    /\ tWrites' = Bump(tWrites, tI, tJ)
    /\ tConverts' = tConverts + 1
    /\ tJ' = tJ + 1
    /\ TensorOnly
    /\ UNCHANGED <<tPc, tMode, tImg, tI, tOut>>

CaffeInnerEnd ==
    /\ tPc = "inner" /\ tMode = "caffe"
    /\ ~(tJ < CaffeSize)
    /\ tI' = tI + 1
    /\ tPc' = "outer"
    /\ TensorOnly
    /\ UNCHANGED <<tMode, tImg, tJ, tImage, tReads, tWrites, tConverts, tOut>>

\* The images handed to the composers: origin (0, 0), as the resizer returns
\* them, of every width and height up to MaxDim.
TensorImages ==
    {Image(Rect(0, 0, w, h), s) : w \in 1..MaxDim, h \in 1..MaxDim, s \in 0..MaxSeed}

TensorInit ==
    /\ tMode \in {"mask", "tf", "caffe"}
    /\ tImg \in TensorImages
    /\ tPc = IF tMode = "mask" THEN "alloc" ELSE "outer"
    /\ tI = 0 /\ tJ = 0
    /\ tImage = CASE tMode = "mask"  -> <<>>
                  [] tMode = "tf"    -> ZeroGrid(TFSize)
                  [] tMode = "caffe" -> ZeroGrid(CaffeSize)
    /\ tReads = NoCount /\ tWrites = NoCount /\ tConverts = 0
    /\ tOut = Idle
    /\ MetaIdle /\ AnchorIdle /\ RunIdle

TensorNext ==
    \/ MaskAllocRow \/ MaskAllocEnd \/ MaskOuter \/ MaskReturn
    \/ MaskInner \/ MaskInnerEnd
    \/ TFOuter \/ TFReturn \/ TFInner \/ TFInnerEnd
    \/ CaffeOuter \/ CaffeReturn \/ CaffeInner \/ CaffeInnerEnd

SpecTensor == TensorInit /\ [][TensorNext]_vars

\* what the normalization of a 16-bit sample v must give: (v/256 - 127.5) / 127.5
Centered(v) == Frac(2 * (v \div 256) - 255, 255)

C10_HeightWidthLayout ==
    (tMode \in {"tf", "caffe"} /\ tPc = "done") =>
        LET n == IF tMode = "tf" THEN TFSize ELSE CaffeSize
        IN  \A x \in 0..n - 1 : \A y \in 0..n - 1 :
              LET p == At(tImg, x, y)
              IN  tOut.data[y + 1][x + 1] =
                    IF tMode = "tf"
                    THEN <<Centered(p[1]), Centered(p[2]), Centered(p[3])>>
                    ELSE <<Frac(1000 * (p[3] \div 256) - 103939, 1000),
                           Frac(1000 * (p[2] \div 256) - 116779, 1000),
                           Frac(1000 * (p[1] \div 256) - 123680, 1000)>>

-----------------------------------------------------------------------------
(* Anchors: fixed-point arithmetic *)

\* one pixel, in the unit of the anchor coordinates
FixedOne == 10 * 100

RECURSIVE ISqrtIn(_, _, _)
ISqrtIn(n, lo, hi) ==
    IF lo >= hi THEN lo
    ELSE LET mid == (lo + hi + 1) \div 2
         IN  IF mid * mid <= n THEN ISqrtIn(n, mid, hi) ELSE ISqrtIn(n, lo, mid - 1)

\* the integer part of the square root of n >= 0
ISqrt(n) == ISqrtIn(n, 0, 40000)

\* math.Sqrt of a fixed-point number
Sqrt(x) == ISqrt(x * FixedOne)

\* math.Ceil(float64(n) / float64(d)), d > 0
Ceil(n, d) == IF n % d = 0 THEN n \div d ELSE n \div d + 1

\* computeBackboneShapes rounding down: C2 tells them apart
computeBackboneShapesFloor(imageBounds, backboneStrides) ==
    [x \in 1..Len(backboneStrides) |->
        <<Dy(imageBounds) \div backboneStrides[x],
          Dx(imageBounds) \div backboneStrides[x]>>]

computeBackboneShapes(imageBounds, backboneStrides) ==
    [x \in 1..Len(backboneStrides) |->
        <<Ceil(Dy(imageBounds), backboneStrides[x]),
          Ceil(Dx(imageBounds), backboneStrides[x])>>]

\* float32(scales) / float32(math.Sqrt(float64(ratio)))
anchorHeight(scales, ratio) == (scales * FixedOne * FixedOne) \div Sqrt(ratio)

\* float32(scales) * float32(math.Sqrt(float64(ratio)))
anchorWidth(scales, ratio) == scales * Sqrt(ratio)

\* anchorBox as (x1, y1, x2, y2): C3 tells them apart
anchorBoxXY(j, i, k, featureStride, hw) ==
    <<i * featureStride * FixedOne - hw.widths[k + 1] \div 2,
      j * featureStride * FixedOne - hw.heights[k + 1] \div 2,
      i * featureStride * FixedOne + hw.widths[k + 1] \div 2,
      j * featureStride * FixedOne + hw.heights[k + 1] \div 2>>

\* the [4]float32 appended for cell (j, i) and ratio index k (0-based)
anchorBox(j, i, k, featureStride, hw) ==
    <<j * featureStride * FixedOne - hw.heights[k + 1] \div 2,
      i * featureStride * FixedOne - hw.widths[k + 1] \div 2,
      j * featureStride * FixedOne + hw.heights[k + 1] \div 2,
      i * featureStride * FixedOne + hw.widths[k + 1] \div 2>>

\* the configuration getAnchors passes on
getAnchorsConfig(imageBounds) ==
    LET backboneStrides == <<4, 8, 16, 32, 64>>
    IN  [scales         |-> <<32, 64, 128, 256, 512>>,
         ratios         |-> <<FixedOne \div 2, FixedOne, 2 * FixedOne>>,
         featureShapes  |-> computeBackboneShapes(imageBounds, backboneStrides),
         featureStrides |-> backboneStrides,
         anchorStride   |-> 1]


-----------------------------------------------------------------------------
(* getAnchors, generatePyramidAnchors, generateAnchors *)

\* shape and featureStride of the running generateAnchors
Shape  == aCfg.featureShapes[aLvl]
Stride == aCfg.featureStrides[aLvl]

\* getAnchors: build the configuration and call generatePyramidAnchors
GetAnchors ==
    /\ aPc = "getAnchors"
    /\ aCfg' = getAnchorsConfig(aBounds)
    /\ aLvl' = 1
    /\ aAnchors' = <<>>
    /\ aPc' = "pyramid"
    /\ AnchorOnly
    /\ UNCHANGED <<aEntry, aBounds, aHW, aJ, aI, aK, aBoxes, aLens>>

\* for i := range scales: enter generateAnchors(scales[i], ratios, ...), which
\* first reads ratios[0], ratios[1], ratios[2]
PyramidLevel ==
    /\ aPc = "pyramid"
    /\ aLvl <= Len(aCfg.scales)
    /\ Len(aCfg.ratios) >= 3
    /\ aHW' = [heights |-> [k \in 1..3 |-> anchorHeight(aCfg.scales[aLvl], aCfg.ratios[k])],
               widths  |-> [k \in 1..3 |-> anchorWidth(aCfg.scales[aLvl], aCfg.ratios[k])]]
    /\ aBoxes' = <<>>
    /\ aJ' = 0
    /\ aPc' = "rows"
    /\ AnchorOnly
    /\ UNCHANGED <<aEntry, aBounds, aCfg, aLvl, aI, aK, aAnchors, aLens>>

\* ratios[1] or ratios[2] of a shorter list: index out of range
PyramidPanic ==
    /\ aPc = "pyramid"
    /\ aLvl <= Len(aCfg.scales)
    /\ Len(aCfg.ratios) < 3
    /\ aPc' = "panic"
    /\ AnchorOnly
    /\ UNCHANGED <<aEntry, aBounds, aCfg, aLvl, aHW, aJ, aI, aK, aBoxes, aAnchors, aLens>>

\* return anchors
PyramidReturn ==
    /\ aPc = "pyramid"
    /\ aLvl > Len(aCfg.scales)
    /\ aPc' = "done"
    /\ AnchorOnly
    /\ UNCHANGED <<aEntry, aBounds, aCfg, aLvl, aHW, aJ, aI, aK, aBoxes, aAnchors, aLens>>

\* for j := float32(0); j < shape[0]; ... {
AnchorRows ==
    /\ aPc = "rows"
    /\ aJ < Shape[1]
    /\ aI' = 0
    /\ aPc' = "cols"
    /\ AnchorOnly
    /\ UNCHANGED <<aEntry, aBounds, aCfg, aLvl, aHW, aJ, aK, aBoxes, aAnchors, aLens>>

\* return boxes; anchors[0] = append(anchors[0], boxes...)
AnchorRowsEnd ==
    /\ aPc = "rows"
    /\ ~(aJ < Shape[1])
    /\ aAnchors' = aAnchors \o aBoxes
    /\ aLens' = Append(aLens, Len(aBoxes))
    /\ aLvl' = aLvl + 1
    /\ aPc' = "pyramid"
    /\ AnchorOnly
    /\ UNCHANGED <<aEntry, aBounds, aCfg, aHW, aJ, aI, aK, aBoxes>>

\* for i := float32(0); i < shape[1]; ... {
AnchorCols ==
    /\ aPc = "cols"
    /\ aI < Shape[2]
    /\ aK' = 0
    /\ aPc' = "ratios"
    /\ AnchorOnly
    /\ UNCHANGED <<aEntry, aBounds, aCfg, aLvl, aHW, aJ, aI, aBoxes, aAnchors, aLens>>

\* j += float32(anchorStride)
AnchorColsEnd ==
    /\ aPc = "cols"
    /\ ~(aI < Shape[2])
    /\ aJ' = aJ + aCfg.anchorStride
    /\ aPc' = "rows"
    /\ AnchorOnly
    /\ UNCHANGED <<aEntry, aBounds, aCfg, aLvl, aHW, aI, aK, aBoxes, aAnchors, aLens>>

\* for k := 0; k < 3; k++ { boxes = append(boxes, ...) }
\* (a loop over j or i that cannot end is cut off MaxOverrun boxes past the grid)
AnchorRatio ==
    /\ aPc = "ratios"
    /\ aK < 3
    /\ Len(aBoxes) < Shape[1] * Shape[2] * 3 + MaxOverrun
    /\ aBoxes' = Append(aBoxes, anchorBox(aJ, aI, aK, Stride, aHW))
    /\ aK' = aK + 1
    /\ AnchorOnly
    /\ UNCHANGED <<aPc, aEntry, aBounds, aCfg, aLvl, aHW, aJ, aI, aAnchors, aLens>>

\* i += float32(anchorStride)
AnchorRatioEnd ==
    /\ aPc = "ratios"
    /\ ~(aK < 3)
    /\ aI' = aI + aCfg.anchorStride
    /\ aPc' = "cols"
    /\ AnchorOnly
    /\ UNCHANGED <<aEntry, aBounds, aCfg, aLvl, aHW, aJ, aK, aBoxes, aAnchors, aLens>>

\* image bounds handed to getAnchors
AnchorDims == (1..MaxAnchorDim) \cup {LargeDim}

\* configurations handed to generatePyramidAnchors directly: one or two
\* levels, scales and strides that are positive, zero or negative, ratio
\* lists of one to four ratios, anchor strides -1..2
GenLevels ==
    {[scales |-> <<32>>,     featureStrides |-> <<4>>,     featureShapes |-> << <<2, 3>> >>],
     [scales |-> <<0>>,      featureStrides |-> <<4>>,     featureShapes |-> << <<2, 3>> >>],
     [scales |-> <<32>>,     featureStrides |-> <<0>>,     featureShapes |-> << <<2, 3>> >>],
     [scales |-> <<32, 64>>, featureStrides |-> <<4, 8>>,  featureShapes |-> << <<3, 2>>, <<2, 1>> >>],
     [scales |-> <<64, 32>>, featureStrides |-> <<8, 4>>,  featureShapes |-> << <<1, 2>>, <<3, 3>> >>],
     [scales |-> <<-32, 64>>, featureStrides |-> <<4, -8>>, featureShapes |-> << <<3, 2>>, <<2, 1>> >>]}

GenRatios ==
    {<<FixedOne \div 2, FixedOne, 2 * FixedOne>>,
     <<2 * FixedOne, FixedOne, FixedOne \div 2>>,
     <<FixedOne>>,
     <<FixedOne \div 2, FixedOne>>,
     <<FixedOne \div 2, FixedOne, 2 * FixedOne, 4 * FixedOne>>}

GenAnchorStrides == -1..2

AnchorInit ==
    /\ aEntry \in {"getAnchors", "generatePyramidAnchors"}
    /\ IF aEntry = "getAnchors"
       THEN /\ aBounds \in {Rect(0, 0, w, h) : w \in AnchorDims, h \in AnchorDims}
            /\ aCfg = Idle
            /\ aPc = "getAnchors"
            /\ aLvl = 0
            /\ aAnchors = Idle
       ELSE /\ aBounds = Idle
            /\ \E l \in GenLevels, r \in GenRatios, a \in GenAnchorStrides :
                 aCfg = [scales |-> l.scales, ratios |-> r,
                         featureShapes |-> l.featureShapes,
                         featureStrides |-> l.featureStrides, anchorStride |-> a]
            /\ aPc = "pyramid"
            /\ aLvl = 1
            /\ aAnchors = <<>>
    /\ aHW = Idle /\ aJ = 0 /\ aI = 0 /\ aK = 0
    /\ aBoxes = <<>> /\ aLens = <<>>
    /\ MetaIdle /\ TensorIdle /\ RunIdle

AnchorNext ==
    \/ GetAnchors
    \/ PyramidLevel \/ PyramidPanic \/ PyramidReturn
    \/ AnchorRows \/ AnchorRowsEnd
    \/ AnchorCols \/ AnchorColsEnd
    \/ AnchorRatio \/ AnchorRatioEnd

SpecAnchors == AnchorInit /\ [][AnchorNext]_vars


\* the least c with c * s >= n: ceil(n / s)
LeastCover(n, s) == CHOOSE c \in 0..n : c * s >= n /\ (c = 0 \/ (c - 1) * s < n)

\* C2: for image bounds (H, W), H, W >= 1, getAnchors returns exactly the sum
\* over the strides s in {4, 8, 16, 32, 64} of ceil(H/s) * ceil(W/s) * 3
\* anchors, the level of stride s contributing ceil(H/s) * ceil(W/s) * 3.
C2_AnchorCount ==
    (aEntry = "getAnchors" /\ aPc = "done") =>
        LET H == aBounds.Max.Y - aBounds.Min.Y
            W == aBounds.Max.X - aBounds.Min.X
            per(st) == LeastCover(H, st) * LeastCover(W, st) * 3
        IN  /\ aLens = <<per(4), per(8), per(16), per(32), per(64)>>
            /\ Len(aAnchors) = per(4) + per(8) + per(16) + per(32) + per(64)

\* C2 witness: getAnchors has returned for bounds 65 high and 5 wide, where
\* every stride rounds up: 17*2*3 + 9*1*3 + 5*1*3 + 3*1*3 + 2*1*3 anchors.
C2_Witness ==
    /\ aEntry = "getAnchors" /\ aPc = "done"
    /\ Dy(aBounds) = 65 /\ Dx(aBounds) = 5
    /\ Len(aAnchors) = 159
    /\ aLens = <<102, 27, 15, 9, 6>>

\* generatePyramidAnchors has been called: aCfg holds its arguments
Configured == aPc \notin {Idle, "getAnchors"}

BadConfig ==
    /\ Configured
    /\ \/ aCfg.anchorStride <= 0
       \/ \E l \in 1..Len(aCfg.scales) :
            aCfg.scales[l] <= 0 \/ aCfg.featureStrides[l] <= 0

\* the cells 0, a, 2a, ... below n that an anchor stride a >= 1 visits
Visited(n, a) == {x \in 0..n - 1 : x % a = 0}

\* cells of level l that emit anchors
LevelCells(l) ==
    Cardinality(Visited(aCfg.featureShapes[l][1], aCfg.anchorStride))
      * Cardinality(Visited(aCfg.featureShapes[l][2], aCfg.anchorStride))

RECURSIVE LevelOffset(_)
LevelOffset(l) == IF l <= 1 THEN 0 ELSE LevelOffset(l - 1) + 3 * LevelCells(l - 1)

RECURSIVE SumTo(_, _)
SumTo(seq, n) == IF n <= 0 THEN 0 ELSE SumTo(seq, n - 1) + seq[n]

\* the box at position p (0-based) is centred at (y, x) and has the height
\* and width of scale `sc` and ratio `r`
BoxIs(p, y, x, sc, r) ==
    /\ p + 1 <= Len(aAnchors)
    /\ LET b == aAnchors[p + 1]
       IN  /\ b[1] + b[3] = 2 * y * FixedOne
           /\ b[2] + b[4] = 2 * x * FixedOne
           /\ b[3] - b[1] = 2 * (((sc * FixedOne * FixedOne) \div Sqrt(r)) \div 2)
           /\ b[4] - b[2] = 2 * ((sc * Sqrt(r)) \div 2)

C5_RejectsBadConfig ==
    BadConfig => (aBoxes = <<>> /\ aAnchors = <<>> /\ aPc # "done")

\* C6: for a ratio list of any length L >= 1 (strides and scales positive),
\* generateAnchors emits L anchors per visited cell and never fails on the
\* list, so every level returns cells * L anchors.
C6_EveryRatio ==
    (Configured /\ ~BadConfig) =>
      /\ aPc # "panic"
      /\
         \A l \in 1..Len(aLens) : aLens[l] = LevelCells(l) * Len(aCfg.ratios)


-----------------------------------------------------------------------------
(* makeInputs and Inception *)

Nil == "nil"

ResizeWidth  == 800
ResizeHeight == 800

\* imageutils.Scaled(img, width, height): the resized image, with bounds
\* (0, 0, width, height)
Scaled(image, width, height) == Image(Rect(0, 0, width, height), image.seed)

\* makeInputsMeta with the scale taken from the widths: C8 tells them apart
makeInputsMetaWidthScale(image, resized) ==
    composeImageMeta(0, image.Rect, resized.Rect, resized.Rect,
                     FDiv(F32(Dx(resized.Rect)), F32(Dx(image.Rect))), 81)

\* meta, err = composeImageMeta(0, img.Bounds(), resized.Bounds(), ...)
makeInputsMeta(image, resized) ==
    composeImageMeta(0, image.Rect, resized.Rect, resized.Rect,
                     FDiv(F32(Dy(resized.Rect)), F32(Dy(image.Rect))), 81)

\* window, err := tf.NewTensor([1][]float32{{Min.Y, Min.X, Max.Y, Max.X}})
makeInputsWindow(resized) ==
    LET w == <<F32(resized.Rect.Min.Y), F32(resized.Rect.Min.X),
               F32(resized.Rect.Max.Y), F32(resized.Rect.Max.X)>>
    IN  Tensor(<<1, Len(w)>>, <<w>>)

\* makeInputs; `failing` is which of its three tf.NewTensor calls returns an
\* error (0: none does)
makeInputs(image, failing) ==
    LET resized == Scaled(image, ResizeWidth, ResizeHeight)
    IN  IF failing \in 1..3
        THEN [err |-> "tf.NewTensor", resized |-> resized, feeds |-> <<>>]
        ELSE [err |-> Nil, resized |-> resized,
              feeds |-> [input_image      |-> Tensor(imageToTensorShape(resized), "pixels"),
                         input_image_meta |-> makeInputsMeta(image, resized),
                         input_anchors    |-> makeInputsWindow(resized)]]

ImageModeTensorflow == "tf"
ImageModeCaffe      == "caffe"

\* imageToTensor(img, imageMode) of package tensor
modelInputs(image, mode, failing) ==
    IF mode \notin {ImageModeTensorflow, ImageModeCaffe}
    THEN [err |-> "unknown image mode", resized |-> image, feeds |-> <<>>]
    ELSE IF failing
    THEN [err |-> "tf.NewTensor", resized |-> image, feeds |-> <<>>]
    ELSE LET n == IF mode = ImageModeTensorflow THEN TFSize ELSE CaffeSize
         IN  [err |-> Nil, resized |-> image,
              feeds |-> [inputLayer |-> Tensor(<<1, n, n, 3>>, "pixels")]]

\* the Go type [][]float32
Float2D == "[][]float32"

\* a nil error, and an error with its message and what the message formats
NoError == [msg |-> Nil, arg |-> Nil]

\* inceptionReturn without the check of the result's type: C9 tells them apart
inceptionReturnUntyped(receiver, res) ==
    IF res.err
    THEN [val |-> Nil, err |-> [msg |-> "error running the model session", arg |-> Nil]]
    ELSE IF Len(res.tensors) < 1
    THEN [val |-> Nil, err |-> [msg |-> "result is empty", arg |-> Nil]]
    ELSE IF res.tensors[1].rows < 1
    THEN [val |-> Nil, err |-> [msg |-> "predictions are empty", arg |-> Nil]]
    ELSE [val |-> IF receiver = "RCNN" THEN "&str" ELSE "&Predictions",
          err |-> NoError]

\* what the checks after Session.Run return for its (result, err)
inceptionReturn(receiver, res) ==
    IF res.err
    THEN [val |-> Nil, err |-> [msg |-> "error running the model session", arg |-> Nil]]
    ELSE IF Len(res.tensors) < 1
    THEN [val |-> Nil, err |-> [msg |-> "result is empty", arg |-> Nil]]
    ELSE IF res.tensors[1].type # Float2D
    THEN [val |-> Nil, err |-> [msg |-> "result has unexpected type",
                                arg |-> res.tensors[1].type]]
    ELSE IF res.tensors[1].rows < 1
    THEN [val |-> Nil, err |-> [msg |-> "predictions are empty", arg |-> Nil]]
    ELSE [val |-> IF receiver = "RCNN" THEN "&str" ELSE "&Predictions",
          err |-> NoError]

\* imgTensor, meta, anchors, err := makeInputs(img)
RCNNMakeInputs ==
    /\ pc = "call" /\ recv = "RCNN"
    /\ \E failing \in 0..3 : inputs' = makeInputs(img, failing)
    /\ pc' = "built"
    /\ RunOnly
    /\ UNCHANGED <<recv, img, imageMode, runs, result, ret>>

\* tensor, err := imageToTensor(img, m.imageMode)
ModelMakeInputs ==
    /\ pc = "call" /\ recv = "Model"
    /\ \E failing \in BOOLEAN : inputs' = modelInputs(img, imageMode, failing)
    /\ pc' = "built"
    /\ RunOnly
    /\ UNCHANGED <<recv, img, imageMode, runs, result, ret>>

\* if err != nil { return nil, errors.Wrap(err, "error converting image to tensor") }
InputsFailed ==
    /\ pc = "built"
    /\ inputs.err # Nil
    /\ ret' = [val |-> Nil,
               err |-> [msg |-> "error converting image to tensor", arg |-> inputs.err]]
    /\ pc' = "ret"
    /\ RunOnly
    /\ UNCHANGED <<recv, img, imageMode, inputs, runs, result>>

\* the tensors a session run may hand back
EngineTensors == [type : {Float2D, "[]float32", "[][][]float32"}, rows : 0..MaxRows]

RECURSIVE SeqsUpTo(_, _)
SeqsUpTo(S, n) ==
    IF n = 0 THEN {<<>>}
    ELSE LET shorter == SeqsUpTo(S, n - 1)
         IN  shorter \cup {Append(q, x) : q \in shorter, x \in S}

\* result, err := model.Session.Run(feeds, fetches, nil)
SessionRun ==
    /\ pc = "built"
    /\ inputs.err = Nil
    /\ runs' = runs + 1
    /\ \/ result' = [err |-> TRUE, tensors |-> <<>>]
       \/ \E ts \in SeqsUpTo(EngineTensors, MaxResults) :
            result' = [err |-> FALSE, tensors |-> ts]
    /\ pc' = "check"
    /\ RunOnly
    /\ UNCHANGED <<recv, img, imageMode, inputs, ret>>

\* the checks on err, len(result), the type of result[0].Value() and len(res)
InceptionReturn ==
    /\ pc = "check"
    /\ ret' = inceptionReturn(recv, result)
    /\ pc' = "ret"
    /\ RunOnly
    /\ UNCHANGED <<recv, img, imageMode, inputs, runs, result>>

\* the images handed to Inception: bounds with and without an offset origin
RunImages ==
    {Image(Rect(o[1], o[2], o[1] + d[1], o[2] + d[2]), 0) :
        o \in {<<0, 0>>, <<10, 20>>},
        d \in {<<600, 400>>, <<400, 600>>, <<800, 800>>, <<1600, 1200>>, <<1, 3>>}}

RunInit ==
    /\ pc = "call"
    /\ recv \in {"RCNN", "Model"}
    /\ img \in RunImages
    /\ imageMode \in IF recv = "RCNN" THEN {Nil}
                     ELSE {ImageModeTensorflow, ImageModeCaffe, "torch"}
    /\ inputs = Idle /\ runs = 0 /\ result = Idle /\ ret = Idle
    /\ MetaIdle /\ TensorIdle /\ AnchorIdle

Next ==
    \/ RCNNMakeInputs \/ ModelMakeInputs
    \/ InputsFailed \/ SessionRun
    \/ InceptionReturn

Spec == RunInit /\ [][Next]_vars


\* makeInputs has returned its three tensors
InputsBuilt == recv = "RCNN" /\ pc \in {"built", "check", "ret"} /\ inputs.err = Nil

\* C1: the tensor makeInputs hands over as input_anchors has shape (1, N, 4),
\* N being the sum over the pyramid levels of rows_i * cols_i * len(ratios)
\* for the resized image.
C1_AnchorsShape ==
    InputsBuilt =>
        LET H == Dy(inputs.resized.Rect)
            W == Dx(inputs.resized.Rect)
            per(st) == LeastCover(H, st) * LeastCover(W, st) * 3
        IN  inputs.feeds.input_anchors.shape =
              <<1, per(4) + per(8) + per(16) + per(32) + per(64), 4>>

\* C8: the metadata vector makeInputs builds starts with [0, orig_h, orig_w,
\* 3, resized_h, resized_w, 3], taken from the bounds of the original and of
\* the resized image, and its scale entry (the twelfth) is resized_height /
\* original_height.
C8_MetaOfInputs ==
    InputsBuilt =>
        LET v  == inputs.feeds.input_image_meta.data[1]
            o  == img.Rect
            r  == inputs.resized.Rect
            oh == o.Max.Y - o.Min.Y
            ow == o.Max.X - o.Min.X
            rh == r.Max.Y - r.Min.Y
            rw == r.Max.X - r.Min.X
        IN  /\ SubSeq(v, 1, 7) =
                 << <<0, 1>>, <<oh, 1>>, <<ow, 1>>, <<3, 1>>,
                    <<rh, 1>>, <<rw, 1>>, <<3, 1>> >>
            /\ v[12][1] * oh = rh * v[12][2]
            /\ v[12][2] > 0

\* C8 witness: a 400 x 600 image (bounds 600 wide, 400 high) resized to
\* 800 x 800 has the metadata prefix [0, 400, 600, 3, 800, 800, 3], scale 2.
C8_Witness ==
    /\ InputsBuilt
    /\ img.Rect = Rect(0, 0, 600, 400)
    /\ SubSeq(inputs.feeds.input_image_meta.data[1], 1, 7) =
         << <<0, 1>>, <<400, 1>>, <<600, 1>>, <<3, 1>>,
            <<800, 1>>, <<800, 1>>, <<3, 1>> >>
    /\ inputs.feeds.input_image_meta.data[1][12] = <<2, 1>>

\* the session returned at least one tensor and the first is an array of
\* float arrays with at least one row
GoodResult ==
    /\ ~result.err
    /\ Len(result.tensors) >= 1
    /\ result.tensors[1].type = "[][]float32"
    /\ result.tensors[1].rows >= 1

\* C9: Inception returns a value and no error only if the session ran and its
\* first result is an array of float arrays with at least one row; otherwise
\* it returns an error and no value; the unexpected-type error carries the
\* observed type; if building the inputs failed the session is never run.
C9_InceptionResult ==
    /\ (pc \in {"built", "ret"} /\ inputs.err # Nil) => runs = 0
    /\ runs <= 1
    /\ pc = "ret" =>
         /\ (ret.err.msg = Nil) # (ret.val = Nil)
         /\ (ret.err.msg = Nil) <=> (inputs.err = Nil /\ runs = 1 /\ GoodResult)
         /\ (/\ inputs.err = Nil /\ ~result.err /\ Len(result.tensors) >= 1
             /\ result.tensors[1].type # "[][]float32")
              => /\ ret.err.msg = "result has unexpected type"
                 /\ ret.err.arg = result.tensors[1].type

\* C9 witness: a run whose first result had the wrong type was turned into
\* the unexpected-type error.
C9_Witness ==
    /\ pc = "ret" /\ runs = 1
    /\ ret.val = Nil
    /\ ret.err.msg = "result has unexpected type"
    /\ ret.err.arg = "[]float32"

=============================================================================
